---- MODULE Spec2Model ----
(***************************************************************************)
(* Model of the protocol components of the Python web code executor        *)
(* front-ends:                                                             *)
(*   - the AI-debugger variant (src/static/script.js lines 72-360):        *)
(*     runCode, getSuggestion and its exponential-backoff retry loop;      *)
(*   - the Firestore variant (src/static/script.js lines 362-630):         *)
(*     debounced autosave and the real-time snapshot listener.             *)
(*   - the run-button click handlers of the pages that post the code to    *)
(*     the execution backend.                                              *)
(* The variants are separate pages; each has its own specification         *)
(* (SpecRetry, SpecSync, SpecRun) over its own variables, the others'      *)
(* staying put.                                                            *)
(***************************************************************************)
EXTENDS Integers, Sequences, FiniteSets, TLC

(***************************************************************************)
(* Program constants.                                                      *)
(***************************************************************************)
\* const maxRetries = 3;
maxRetries == 3
\* the literal 1000 in Math.pow(2, attempts) * 1000
baseDelayMs == 1000
\* setTimeout(saveEditorContent, 2000)
DebounceMs == 2000

(***************************************************************************)
(* Bounds of the model.                                                    *)
(***************************************************************************)
\* a fetch (with the reading of its body) takes 0..MaxLatency ms
MaxLatency == 1
\* local edits of the user in one session
MaxEdits == 3
\* writes of other sessions to the document
MaxRemoteWrites == 1
\* setDoc calls of the session
MaxWrites == 2
\* the clock is advanced in steps up to MaxGap ms after a timer was set, and
\* from there to the time the timer fires
MaxGap == 500
\* clicks on the run button of a run-button page
MaxClicks == 2
\* how many times the auth-state callback reports a signed-in user
MaxAuthCallbacks == 2

(***************************************************************************)
(* JSON values and fetch outcomes, AI-debugger variant.                    *)
(* A value is [kind, text]; text is the one string the code reads from it. *)
(***************************************************************************)
Undefined == [kind |-> "undefined", text |-> ""]
\* a body response.json() rejects on
Unparseable == [kind |-> "unparseable", text |-> "SyntaxError"]
\* the JSON value null
JsonNull == [kind |-> "null", text |-> ""]
\* a JSON object with neither candidates[0].content.parts[0].text nor error
JsonEmpty == [kind |-> "empty", text |-> ""]
\* { candidates: [{ content: { parts: [{ text }] } }] }
Candidates(t) == [kind |-> "candidates", text |-> t]
\* { error: { message } }
ErrorPayload(m) == [kind |-> "error", text |-> m]

SuggestionTexts == {"fix"}
ApiErrorMessages == {"quota", "overloaded"}
NetworkErrors == {"Failed to fetch", "timeout"}

Bodies ==
  {Unparseable, JsonNull, JsonEmpty}
    \cup {Candidates(t) : t \in SuggestionTexts}
    \cup {ErrorPayload(m) : m \in ApiErrorMessages}

\* what one fetch can do: reject, or resolve with a status and a body
FetchOutcomes ==
  {[settle |-> "reject", ok |-> FALSE, body |-> [kind |-> "neterror", text |-> e]] :
      e \in NetworkErrors}
    \cup {[settle |-> "resolve", ok |-> o, body |-> b] : o \in BOOLEAN, b \in Bodies}

NoResponse == [settle |-> "none", ok |-> FALSE, body |-> Undefined]

\* result = { error: { message: "Max retries reached. Could not fetch response." } }
MaxRetriesMessage == "Max retries reached. Could not fetch response."
MaxRetriesResult == ErrorPayload(MaxRetriesMessage)

(***************************************************************************)
(* What the suggestion box and the output show: [kind, text].              *)
(***************************************************************************)
BoxDefault == [kind |-> "ai-suggestion-text", text |-> ""]
BoxLoading == [kind |-> "getting-suggestion", text |-> ""]
BoxErrorPrompt(m) == [kind |-> "error-prompt", text |-> m]
BoxSuggestion(t) == [kind |-> "suggestion", text |-> t]
BoxApiError(m) == [kind |-> "error-api", text |-> m]

\* the simulated execution of runCode: what the editor's code does
CodeKinds == {"intentional_error", "evalThrows", "evalUndefined", "evalValue"}
TracebackText == "NameError: name 'intentional_error' is not defined"

VARIABLES
  \* ---- AI-debugger variant ----
  isRunning,          \* let isRunning
  lastErrorMessage,   \* let lastErrorMessage
  codeOutput,         \* codeOutput.textContent
  suggestionBox,      \* what suggestionBox shows
  suggestionDisabled, \* suggestionButton.disabled
  runDisabled,        \* the run button's disabled
  pc,                 \* where getSuggestion is: idle, fetch, json, wait, done
  attempts,           \* let attempts
  response,           \* let response
  result,             \* let result
  elapsed,            \* ms since the current getSuggestion call began
  startTimes,         \* elapsed at each fetch the call issued
  outcomes,           \* how each fetch the call issued settled
  latencies,          \* how long each settled fetch took
  delays,             \* each backoff delay the call waited
  refused,            \* the calls that returned at their guard while isRunning
  \* ---- Firestore variant ----
  authPhase,          \* where initializeAppAndAuth is
  db,                 \* let db: set or not
  userId,             \* let userId
  editor,             \* editor.getValue(), NoEditor before ace.edit
  saveTimeout,        \* each change handler's saveTimeout: ms until it fires
  snapQueue,          \* each onSnapshot listener's snapshots not yet delivered
  remoteDoc,          \* the document's code field in the store
  inflight,           \* the code of each setDoc call not yet settled
  nEdits,             \* how many local edits the user made
  nRemote,            \* how many writes other sessions made
  nWrites,            \* how many setDoc calls the session issued
  burstLen,           \* local edits so far, each less than DebounceMs after the one before
  burstSpan,          \* ms from the first to the last of these edits
  lastEdit,           \* the value of the last local edit
  sinceEdit,          \* ms since the last local edit
  appliedSince,       \* a snapshot was applied to the editor since the last edit
  writesSince,        \* the debounced setDoc calls [after, value] since the last edit
  targets,            \* the document paths the session subscribed or wrote to
  afterFailure,       \* since a setDoc call failed: none, failed, edited, retried
  earlyCalls,         \* the persistence functions called so far with db or userId unset
  \* ---- run-button pages ----
  variant,            \* which page is loaded
  buttonDisabled,     \* runButton.disabled
  pending,            \* the requests sent and not yet settled
  nClicks,            \* how many requests were sent
  outputArea,         \* what the output element shows: [text, error]
  shown               \* the request and outcome the output was rendered from

aiVars ==
  <<isRunning, lastErrorMessage, codeOutput, suggestionBox, suggestionDisabled,
    runDisabled, pc, attempts, response, result, elapsed, startTimes, outcomes,
    latencies, delays, refused>>

ghostVars ==
  <<nEdits, nRemote, nWrites, burstLen, burstSpan, lastEdit, sinceEdit,
    appliedSince, writesSince, targets, afterFailure, earlyCalls>>

syncVars ==
  <<authPhase, db, userId, editor, saveTimeout, snapQueue, remoteDoc, inflight,
    ghostVars>>

runVars == <<variant, buttonDisabled, pending, nClicks, outputArea, shown>>

vars == <<aiVars, syncVars, runVars>>

(***************************************************************************)
(* getSuggestion: the pure parts.                                          *)
(***************************************************************************)
\* mutant: the exponent counts from zero
BackoffDelayFromZero(a) == (2 ^ (a - 1)) * baseDelayMs

\* Math.pow(2, attempts) * 1000, attempts already incremented
BackoffDelay(a) == (2 ^ a) * baseDelayMs

\* mutant: one attempt too many
AttemptsRemainOffByOne(a) == a <= maxRetries

\* while (attempts < maxRetries) / if (attempts < maxRetries)
AttemptsRemain(a) == a < maxRetries

\* mutant: an error payload in a success response counts as a failed attempt
LoopBreaksUnlessErrorPayload(resp) == resp.ok /\ resp.body.kind /= "error"

\* if (response.ok) break;
LoopBreaks(resp) == resp.ok

\* mutant: the else branch is missing, result stays what the last attempt left
ExhaustedResultKept(res) == res

\* the else branch after attempts++: the last attempt failed
ExhaustedResult(res) == MaxRetriesResult

\* lines 336-356: what the suggestion box shows for the loop's result;
\* box is what it showed before (the loading indicator)
Render(res, box) ==
  IF res.kind = "candidates" /\ res.text /= ""
    THEN BoxSuggestion(res.text)
  ELSE IF res.kind \in {"null", "undefined"}
    THEN BoxApiError("TypeError")       \* result.error throws, the catch renders
  ELSE IF res.kind = "error"
    THEN BoxApiError(res.text)
  ELSE box                              \* neither branch: nothing is rendered

(***************************************************************************)
(* Initial state: the page after its script ran.                           *)
(***************************************************************************)
InitAI ==
  /\ isRunning = FALSE
  /\ lastErrorMessage = ""
  /\ codeOutput = "waiting-run"
  /\ suggestionBox = BoxDefault
  /\ suggestionDisabled = TRUE
  /\ runDisabled = FALSE
  /\ pc = "idle"
  /\ attempts = 0
  /\ response = NoResponse
  /\ result = Undefined
  /\ elapsed = 0
  /\ startTimes = <<>>
  /\ outcomes = <<>>
  /\ latencies = <<>>
  /\ delays = <<>>
  /\ refused = {}

\* the locals and the record of a getSuggestion call that has returned
ForgetCall ==
  /\ pc' = "idle"
  /\ attempts' = 0
  /\ response' = NoResponse
  /\ result' = Undefined
  /\ elapsed' = 0
  /\ startTimes' = <<>>
  /\ outcomes' = <<>>
  /\ latencies' = <<>>
  /\ delays' = <<>>

\* mutant: runCode without its if (isRunning) return
runCodeUnguarded(kind) ==
  /\ LET status == IF kind = "intentional_error" THEN "error" ELSE "success"
         output == CASE kind = "intentional_error" -> TracebackText
                     [] kind = "evalThrows" -> "Simulated Output: check the console"
                     [] kind = "evalUndefined" -> "Simulated Output: executed"
                     [] OTHER -> "Simulated Output: value"
     IN /\ codeOutput' = output
        /\ IF status = "error"
             THEN /\ lastErrorMessage' = output
                  /\ suggestionDisabled' = FALSE
                  /\ suggestionBox' = BoxErrorPrompt(output)
             ELSE /\ lastErrorMessage' = ""
                  /\ suggestionDisabled' = TRUE
                  /\ suggestionBox' = BoxDefault
  /\ isRunning' = FALSE                \* finally setRunning(false, 'run-button')
  /\ runDisabled' = FALSE
  /\ refused' = {}
  /\ ForgetCall

(***************************************************************************)
(* runCode (lines 199-265). It has no await: one step.                     *)
(***************************************************************************)
runCode(kind) ==
  /\ ~isRunning                        \* if (isRunning) return;
  /\ LET status == IF kind = "intentional_error" THEN "error" ELSE "success"
         output == CASE kind = "intentional_error" -> TracebackText
                     [] kind = "evalThrows" -> "Simulated Output: check the console"
                     [] kind = "evalUndefined" -> "Simulated Output: executed"
                     [] OTHER -> "Simulated Output: value"
     IN /\ codeOutput' = output
        /\ IF status = "error"
             THEN /\ lastErrorMessage' = output
                  /\ suggestionDisabled' = FALSE
                  /\ suggestionBox' = BoxErrorPrompt(output)
             ELSE /\ lastErrorMessage' = ""
                  /\ suggestionDisabled' = TRUE
                  /\ suggestionBox' = BoxDefault
  /\ isRunning' = FALSE                \* finally setRunning(false, 'run-button')
  /\ runDisabled' = FALSE
  /\ refused' = {}
  /\ ForgetCall

\* runCode while a request is in progress returns at once
runCodeIgnored ==
  /\ isRunning
  /\ refused' = refused \cup {"runCode"}
  /\ UNCHANGED <<isRunning, lastErrorMessage, codeOutput, suggestionBox,
                 suggestionDisabled, runDisabled, pc, attempts, response, result,
                 elapsed, startTimes, outcomes, latencies, delays>>
  /\ UNCHANGED <<syncVars, runVars>>

(***************************************************************************)
(* getSuggestion (lines 271-360).                                          *)
(***************************************************************************)
\* mutant: getSuggestion without the !lastErrorMessage part of its guard
getSuggestionWithoutMessage ==
  /\ ~isRunning
  /\ isRunning' = TRUE                 \* setRunning(true, 'suggestion-button')
  /\ suggestionDisabled' = TRUE
  /\ suggestionBox' = BoxLoading
  /\ attempts' = 0
  /\ response' = NoResponse
  /\ result' = Undefined
  /\ elapsed' = 0
  /\ startTimes' = <<0>>
  /\ outcomes' = <<>>
  /\ latencies' = <<>>
  /\ delays' = <<>>
  /\ pc' = "fetch"
  /\ refused' = {}
  /\ UNCHANGED <<lastErrorMessage, codeOutput, runDisabled>>

\* entry up to the first await fetch
getSuggestion ==
  /\ ~(isRunning \/ lastErrorMessage = "")
  /\ isRunning' = TRUE                 \* setRunning(true, 'suggestion-button')
  /\ suggestionDisabled' = TRUE
  /\ suggestionBox' = BoxLoading
  /\ attempts' = 0
  /\ response' = NoResponse
  /\ result' = Undefined
  /\ elapsed' = 0
  /\ startTimes' = <<0>>
  /\ outcomes' = <<>>
  /\ latencies' = <<>>
  /\ delays' = <<>>
  /\ pc' = "fetch"
  /\ refused' = {}
  /\ UNCHANGED <<lastErrorMessage, codeOutput, runDisabled>>

\* if (isRunning || !lastErrorMessage) return;
getSuggestionIgnored ==
  /\ isRunning \/ lastErrorMessage = ""
  /\ refused' = IF isRunning THEN refused \cup {"getSuggestion"} ELSE refused
  /\ UNCHANGED <<isRunning, lastErrorMessage, codeOutput, suggestionBox,
                 suggestionDisabled, runDisabled, pc, attempts, response, result,
                 elapsed, startTimes, outcomes, latencies, delays>>
  /\ UNCHANGED <<syncVars, runVars>>

\* mutant: the call returns without its finally
FinishStillRunning(res) ==
  /\ result' = res
  /\ suggestionBox' = Render(res, suggestionBox)
  /\ pc' = "done"
  /\ UNCHANGED <<isRunning, suggestionDisabled, delays, startTimes>>

\* lines 336-359, run with the loop's final result res
Finish(res) ==
  /\ result' = res
  /\ suggestionBox' = Render(res, suggestionBox)
  /\ isRunning' = FALSE                \* finally setRunning(false, 'suggestion-button')
  /\ suggestionDisabled' = FALSE
  /\ pc' = "done"
  /\ UNCHANGED <<delays, startTimes>>

\* lines 320-331: the attempt failed (catch, or a response that is not ok);
\* res is result as the attempt left it
AttemptFailed(res) ==
  /\ attempts' = attempts + 1
  /\ IF AttemptsRemain(attempts + 1)
       THEN /\ delays' = Append(delays, BackoffDelay(attempts + 1))
            /\ result' = res
            /\ pc' = "wait"
            /\ UNCHANGED <<isRunning, suggestionBox, suggestionDisabled, startTimes>>
       ELSE Finish(ExhaustedResult(res))

\* await fetch(...) settles
FetchSettles(o, lat) ==
  /\ pc = "fetch"
  /\ outcomes' = Append(outcomes, o)
  /\ latencies' = Append(latencies, lat)
  /\ elapsed' = elapsed + lat
  /\ IF o.settle = "reject"
       THEN /\ AttemptFailed(result)
            /\ UNCHANGED response
       ELSE /\ response' = o
            /\ pc' = "json"
            /\ UNCHANGED <<attempts, result, delays, startTimes, isRunning,
                           suggestionBox, suggestionDisabled>>
  /\ UNCHANGED <<lastErrorMessage, codeOutput, runDisabled, refused>>

\* result = await response.json() settles, then if (response.ok) break
JsonSettles ==
  /\ pc = "json"
  /\ IF response.body = Unparseable
       THEN AttemptFailed(result)                 \* json() rejects: the catch
       ELSE IF LoopBreaks(response)
         THEN /\ Finish(response.body)
              /\ UNCHANGED attempts
         ELSE AttemptFailed(response.body)
  /\ UNCHANGED <<lastErrorMessage, codeOutput, runDisabled, response, elapsed,
                 outcomes, latencies, refused>>

\* the setTimeout of the backoff fires; the loop issues the next fetch
BackoffElapses ==
  /\ pc = "wait"
  /\ elapsed' = elapsed + delays[Len(delays)]
  /\ startTimes' = Append(startTimes, elapsed + delays[Len(delays)])
  /\ pc' = "fetch"
  /\ UNCHANGED <<isRunning, lastErrorMessage, codeOutput, suggestionBox,
                 suggestionDisabled, runDisabled, attempts, response, result,
                 outcomes, latencies, delays, refused>>

NextAI ==
  \/ (\E kind \in CodeKinds : runCode(kind)) /\ UNCHANGED <<syncVars, runVars>>
  \/ runCodeIgnored
  \/ getSuggestion /\ UNCHANGED <<syncVars, runVars>>
  \/ getSuggestionIgnored
  \/ (\E o \in FetchOutcomes, lat \in 0..MaxLatency : FetchSettles(o, lat))
       /\ UNCHANGED <<syncVars, runVars>>
  \/ JsonSettles /\ UNCHANGED <<syncVars, runVars>>
  \/ BackoffElapses /\ UNCHANGED <<syncVars, runVars>>


(***************************************************************************)
(* The callers of the code-execution backend: the click handlers of the    *)
(* run button.                                                             *)
(*   "static"    src/static/script.js lines 1-70 (handleRunCode)           *)
(*   "script"    src/script.js                                             *)
(*   "part_000"  src/unnamed/part_000                                      *)
(*   "part_001"  src/unnamed/part_001 (runCode, cleanError)                *)
(*   "firestore" src/static/script.js lines 485-547 (runCode)              *)
(* A text is the sequence of the pieces the code concatenates.             *)
(***************************************************************************)
Variants == {"static", "script", "part_000", "part_001", "firestore"}

\* the error field of a response body: absent, a string, or an object
\* { type, message, suggestion }
NoError == [shape |-> "absent"]
ErrString(s) == [shape |-> "string", text |-> s]
ErrObject(t, m, s) == [shape |-> "object", type |-> t, message |-> m, suggestion |-> s]

TimedOut == "Execution timed out"
NameErrorText == "NameError: name 'x' is not defined"
ErrorStrings == {TimedOut, NameErrorText}
ErrorObjects == {ErrObject("NameError", "name 'x' is not defined", "Define x before using it.")}

\* JavaScript truthiness of the error field
Truthy(e) == e.shape = "object" \/ (e.shape = "string" /\ e.text /= "")
\* conversion to a string, as a template literal or textContent does it
Str(e) ==
  CASE e.shape = "string" -> e.text
    [] e.shape = "object" -> "[object Object]"
    [] OTHER -> "undefined"
\* e.type, e.message, e.suggestion: a string has no such property
Get(e, field) == IF e.shape = "object" THEN e[field] ELSE "undefined"
HasProperty(e, field) == e.shape = "object" /\ e[field] /= ""
\* errorStr.includes(sub), for the error strings of the model
Includes(s, sub) == <<s, sub>> \in {<<TimedOut, TimedOut>>, <<NameErrorText, "NameError">>}

\* a body response.json() rejects on
RunUnparseable == [output |-> "", error |-> NoError, parses |-> FALSE]
RunBodies ==
  {RunUnparseable, [output |-> "42", error |-> NoError, parses |-> TRUE]}
    \cup {[output |-> "", error |-> ErrString(s), parses |-> TRUE] : s \in ErrorStrings}
    \cup {[output |-> "", error |-> e, parses |-> TRUE] : e \in ErrorObjects}

\* what the request can do: reject, or resolve with a status and a body
RunOutcomes ==
  {[settle |-> "reject", ok |-> FALSE, body |-> RunUnparseable]}
    \cup {[settle |-> "resolve", ok |-> o, body |-> b] : o \in BOOLEAN, b \in RunBodies}

Shown(t, e) == [text |-> t, error |-> e]
NotShown == [req |-> 0]

\* static/script.js displayResult(output, error)
displayResult(output, error) ==
  IF error /= <<>>
    THEN Shown(<<"Error: ">> \o error, TRUE)
    ELSE Shown(output, FALSE)

\* static/script.js handleRunCode, after the fetch settles (lines 33-48)
handleRunCode(o) ==
  IF o.settle = "reject"
    THEN displayResult(<<>>, <<"Network or Unexpected Error: ", "Failed to fetch">>)
    ELSE IF ~o.ok
      THEN displayResult(<<>>, <<"Network or Unexpected Error: ", "Server Error: ", "status">>)
      ELSE IF ~o.body.parses
        THEN displayResult(<<>>, <<"Network or Unexpected Error: ", "SyntaxError">>)
        ELSE IF Truthy(o.body.error)
          THEN displayResult(<<>>, <<Str(o.body.error)>>)
          ELSE displayResult(<<o.body.output>>, <<>>)

ConnectionError ==
  Shown(<<"Internal Error: Could not connect to the server or unexpected response.">>, TRUE)

\* src/script.js, after the fetch settles (lines 28-53)
ScriptHandler(o) ==
  IF o.settle = "reject" \/ ~o.body.parses
    THEN ConnectionError
    ELSE IF Truthy(o.body.error)
      THEN Shown((IF o.body.output /= "" THEN <<o.body.output, "\n">> ELSE <<>>)
                   \o <<"Error (", Get(o.body.error, "type"), "): ",
                        Get(o.body.error, "message"), "\n">>
                   \o (IF HasProperty(o.body.error, "suggestion")
                         THEN <<"\n", o.body.error.suggestion>>
                         ELSE <<>>),
                 TRUE)
      ELSE Shown(<<o.body.output>>, FALSE)

\* src/unnamed/part_000, after the fetch settles (lines 32-51)
Part000Handler(o) ==
  IF o.settle = "reject" \/ ~o.body.parses
    THEN ConnectionError
    ELSE IF Truthy(o.body.error)
      THEN Shown(<<Str(o.body.error)>>, TRUE)
      ELSE Shown(<<o.body.output>>, FALSE)

\* src/unnamed/part_001 cleanError(errorStr), errorStr a non-empty string
cleanError(errorStr) ==
  IF Includes(errorStr, TimedOut)
    THEN <<"Timeout Error: Code execution exceeded the 5 second limit (likely an infinite loop).">>
    ELSE IF Includes(errorStr, "NameError")
      THEN <<errorStr, "\n\nSuggestion: A variable or function was used but not defined.">>
      ELSE <<errorStr>>

NetworkError ==
  Shown(<<"Network Error: Could not connect to the execution environment.">>, TRUE)

\* src/unnamed/part_001 runCode, after the fetch settles (lines 110-131);
\* cleanError of an object throws (no includes method): the catch runs
Part001Handler(o) ==
  IF o.settle = "reject" \/ ~o.body.parses
    THEN NetworkError
    ELSE IF o.ok
      THEN IF Truthy(o.body.error)
             THEN IF o.body.error.shape = "object"
                    THEN NetworkError
                    ELSE Shown(cleanError(o.body.error.text), TRUE)
             ELSE Shown(<<o.body.output>>, FALSE)
      ELSE Shown(<<"Server Error: ",
                   IF Truthy(o.body.error) THEN Str(o.body.error) ELSE "status">>, TRUE)

\* static/script.js runCode of the Firestore variant, after the fetch settles
\* (lines 509-542), with no analysis selected
FirestoreHandler(o) ==
  IF o.settle = "reject" \/ ~o.body.parses
    THEN Shown(<<"network error">>, TRUE)
    ELSE IF o.ok
      THEN Shown(<<"--- result ---\n", o.body.output>>, FALSE)
      ELSE Shown(<<"--- error: ",
                   IF Truthy(o.body.error)
                     THEN Str(o.body.error)
                     ELSE "Server Execution Failed",
                   " ---\n">>, TRUE)

Show(v, o) ==
  CASE v = "static" -> handleRunCode(o)
    [] v = "script" -> ScriptHandler(o)
    [] v = "part_000" -> Part000Handler(o)
    [] v = "part_001" -> Part001Handler(o)
    [] OTHER -> FirestoreHandler(o)

\* the variants that set runButton.disabled = true before their fetch and
\* false in their finally
DisablesButton(v) == v /= "static"

LoadingText(v) ==
  CASE v = "part_001" -> "Executing code..."
    [] v = "firestore" -> "executing..."
    [] OTHER -> "Running code..."

\* the output before the first run: window.onload of static/script.js
InitialText(v) == IF v = "static" THEN <<"Ready to run code.">> ELSE <<>>

\* no run-button page
InitRun ==
  /\ variant = "none"
  /\ buttonDisabled = FALSE
  /\ pending = {}
  /\ nClicks = 0
  /\ outputArea = Shown(<<>>, FALSE)
  /\ shown = NotShown

\* the click handler up to its await fetch; a disabled button raises no click
Click ==
  /\ variant \in Variants
  /\ ~buttonDisabled
  /\ nClicks < MaxClicks
  /\ nClicks' = nClicks + 1
  /\ pending' = pending \cup {nClicks + 1}
  /\ outputArea' = Shown(<<LoadingText(variant)>>, FALSE)
  /\ buttonDisabled' = DisablesButton(variant)
  /\ shown' = NotShown
  /\ UNCHANGED variant

\* mutant: the handler without its finally
RunSettlesWithoutFinally(r, o) ==
  /\ r \in pending
  /\ pending' = pending \ {r}
  /\ outputArea' = Show(variant, o)
  /\ shown' = [req |-> r, outcome |-> o]
  /\ UNCHANGED <<variant, nClicks, buttonDisabled>>

\* request r settles with outcome o: the rest of the handler runs, its
\* finally included
RunSettles(r, o) ==
  /\ r \in pending
  /\ pending' = pending \ {r}
  /\ outputArea' = Show(variant, o)
  /\ buttonDisabled' = IF DisablesButton(variant) THEN FALSE ELSE buttonDisabled
  /\ shown' = [req |-> r, outcome |-> o]
  /\ UNCHANGED <<variant, nClicks>>

NextRun ==
  \/ Click /\ UNCHANGED <<aiVars, syncVars>>
  \/ (\E r \in pending, o \in RunOutcomes : RunSettles(r, o))
       /\ UNCHANGED <<aiVars, syncVars>>

(***************************************************************************)
(* Firestore variant: values.                                              *)
(***************************************************************************)
NoEditor == "<no editor>"
NoDoc == "<no document>"
NullUser == "null"
Uid == "uid-1"
NoTimer == -1
\* const appId: __app_id when the page defines it
appId == "default-app-id"
\* editor.setValue("def greet(name): ...", 1)
DefaultCode == "def greet"
\* what the user can make the editor hold
Values == {"ab", "abc", DefaultCode}
\* what another session can write
RemoteValues == {"", "ab"}
\* what the document can hold when the session starts
InitialDocs == {NoDoc, "ab"}
\* how far the clock is advanced in one step
Steps == {500}
\* sinceEdit once the debounce interval is over
Late == DebounceMs + 1

InitSync ==
  /\ authPhase = "start"
  /\ db = FALSE
  /\ userId = NullUser
  /\ editor = NoEditor
  /\ saveTimeout = <<>>
  /\ snapQueue = <<>>
  /\ inflight = <<>>
  /\ nEdits = 0
  /\ nRemote = 0
  /\ nWrites = 0
  /\ burstLen = 0
  /\ burstSpan = 0
  /\ lastEdit = NoEditor
  /\ sinceEdit = 0
  /\ appliedSince = FALSE
  /\ writesSince = <<>>
  /\ targets = {}
  /\ afterFailure = "none"
  /\ earlyCalls = {}

(***************************************************************************)
(* The pure parts.                                                         *)
(***************************************************************************)
\* mutant: a pending timer is left to run, only an idle handler starts one
OnChangeKeepsPending(timeout) == IF timeout /= NoTimer THEN timeout ELSE DebounceMs

\* the change handler: clearTimeout(saveTimeout);
\* saveTimeout = setTimeout(saveEditorContent, 2000)
OnChange(timeout) == DebounceMs

\* mutant: the callback without its editor.getValue() !== savedCode test
SnapshotAppliesUncompared(snap, content) == snap /= NoDoc /\ snap /= ""

\* the onSnapshot callback's conditions: docSnap.exists() && docSnap.data().code
\* (the empty string is falsy), then editor.getValue() !== savedCode
SnapshotApplies(snap, content) == snap /= NoDoc /\ snap /= "" /\ content /= snap

\* the path 'artifacts/' + appId + '/users/' + user + '/executorData' and the
\* document id 'editorState', as doc(db, path, 'editorState') joins them
PathOf(app, user) == <<"artifacts", app, "users", user, "executorData", "editorState">>

\* const DOCUMENT_PATH: evaluated once, when the script loads; userId is
\* still null then and is assigned only in the auth callback
DOCUMENT_PATH == PathOf(appId, NullUser)

\* mutant: the guard of saveEditorContent and setupEditorPersistence always passes
CanPersistAlways == TRUE

\* if (!db || !userId) return;
CanPersist == db /\ userId /= NullUser

\* the store notifies every listener of a change of the document
Notify(queues, snap) == [s \in DOMAIN queues |-> Append(queues[s], snap)]

PendingTimers == {saveTimeout[i] : i \in DOMAIN saveTimeout} \ {NoTimer}

\* d ms pass
Elapse(d) ==
  /\ saveTimeout' = [i \in DOMAIN saveTimeout |->
                       IF saveTimeout[i] = NoTimer THEN NoTimer ELSE saveTimeout[i] - d]
  /\ sinceEdit' = IF sinceEdit + d > DebounceMs THEN Late ELSE sinceEdit + d

(***************************************************************************)
(* saveEditorContent (lines 557-573) up to its await setDoc: the content   *)
(* is read and the write is issued.                                        *)
(***************************************************************************)
saveEditorContent(content) ==
  IF CanPersist
    THEN /\ inflight' = Append(inflight, content)
         /\ nWrites' = nWrites + 1
         /\ targets' = targets \cup {DOCUMENT_PATH}   \* doc(db, DOCUMENT_PATH, ...)
    ELSE UNCHANGED <<inflight, nWrites, targets>>

(***************************************************************************)
(* initializeAppAndAuth (lines 385-424).                                   *)
(***************************************************************************)
initializeAppAndAuth(config, signedIn) ==
  /\ authPhase = "start"
  /\ IF ~config
       THEN /\ authPhase' = "noConfig"        \* Firebase config is missing
            /\ UNCHANGED db
       ELSE /\ db' = TRUE                     \* db = getFirestore(app)
            /\ authPhase' = IF signedIn THEN "listening" ELSE "signInFailed"
  /\ UNCHANGED <<userId, editor, saveTimeout, snapQueue, remoteDoc, inflight,
                 ghostVars>>

\* the onAuthStateChanged callback with a user: setupApplication, then
\* setupEditorPersistence (lines 407-415, 429-443, 578-607, 613-628)
OnAuthStateChanged ==
  /\ authPhase = "listening"
  /\ authPhase' = "ready"
  /\ userId' = Uid
  /\ editor' = DefaultCode                    \* initializeAceEditor
  /\ snapQueue' = Append(snapQueue, <<remoteDoc>>)   \* onSnapshot(dataRef, ...)
  /\ saveTimeout' = Append(saveTimeout, NoTimer)     \* let saveTimeout; on('change')
  /\ inflight' = Append(inflight, DefaultCode)       \* saveEditorContent()
  /\ nWrites' = nWrites + 1
  /\ targets' = targets \cup {DOCUMENT_PATH}       \* doc(db, DOCUMENT_PATH, ...)
  /\ earlyCalls' = {}                        \* db and userId are set from here on
  /\ UNCHANGED <<db, remoteDoc, nEdits, nRemote, burstLen, burstSpan, lastEdit,
                 sinceEdit, appliedSince, writesSince, afterFailure>>

(***************************************************************************)
(* The user edits the editor: the session's change event (lines 600-603).  *)
(***************************************************************************)
LocalEdit(v) ==
  /\ authPhase = "ready"
  /\ v /= editor
  /\ nEdits < MaxEdits
  /\ editor' = v
  /\ saveTimeout' = [i \in DOMAIN saveTimeout |-> OnChange(saveTimeout[i])]
  /\ nEdits' = nEdits + 1
  /\ burstLen' = IF burstLen > 0 /\ sinceEdit < DebounceMs THEN burstLen + 1 ELSE 1
  /\ burstSpan' = IF burstLen > 0 /\ sinceEdit < DebounceMs
                    THEN burstSpan + sinceEdit
                    ELSE 0
  /\ lastEdit' = v
  /\ sinceEdit' = 0
  /\ appliedSince' = FALSE
  /\ writesSince' = <<>>
  /\ afterFailure' = IF afterFailure = "failed" THEN "edited" ELSE afterFailure
  /\ UNCHANGED <<authPhase, db, userId, snapQueue, remoteDoc, inflight, nRemote,
                 nWrites, targets, earlyCalls>>

\* the debounce timer of handler i fires: saveEditorContent runs
TimerFires(i) ==
  /\ saveTimeout[i] = 0
  /\ nWrites < MaxWrites
  /\ saveTimeout' = [saveTimeout EXCEPT ![i] = NoTimer]
  /\ saveEditorContent(editor)
  /\ writesSince' = IF CanPersist
                      THEN Append(writesSince, [after |-> sinceEdit, value |-> editor])
                      ELSE writesSince
  /\ afterFailure' = IF CanPersist /\ afterFailure = "edited"
                       THEN "retried"
                       ELSE afterFailure
  /\ UNCHANGED <<authPhase, db, userId, editor, snapQueue, remoteDoc, nEdits,
                 nRemote, burstLen, burstSpan, lastEdit, sinceEdit, appliedSince,
                 earlyCalls>>

\* mutant: a failed write is issued again
WriteSettlesRetrying(ok) ==
  /\ inflight /= <<>>
  /\ IF ok
       THEN /\ inflight' = Tail(inflight)
            /\ remoteDoc' = Head(inflight)
            /\ snapQueue' = Notify(snapQueue, Head(inflight))
            /\ UNCHANGED afterFailure
       ELSE /\ inflight' = Append(Tail(inflight), Head(inflight))
            /\ afterFailure' = "failed"
            /\ UNCHANGED <<remoteDoc, snapQueue>>
  /\ UNCHANGED <<authPhase, db, userId, editor, saveTimeout, nEdits, nRemote,
                 nWrites, burstLen, burstSpan, lastEdit, sinceEdit, appliedSince,
                 writesSince, targets, earlyCalls>>

\* await setDoc(...) settles: the oldest write reaches the store, or fails
\* (catch: console.error)
WriteSettles(ok) ==
  /\ inflight /= <<>>
  /\ inflight' = Tail(inflight)
  /\ IF ok
       THEN /\ remoteDoc' = Head(inflight)
            /\ snapQueue' = Notify(snapQueue, Head(inflight))
            /\ UNCHANGED afterFailure
       ELSE /\ afterFailure' = "failed"
            /\ UNCHANGED <<remoteDoc, snapQueue>>
  /\ UNCHANGED <<authPhase, db, userId, editor, saveTimeout, nEdits, nRemote,
                 nWrites, burstLen, burstSpan, lastEdit, sinceEdit, appliedSince,
                 writesSince, targets, earlyCalls>>

\* another session writes the document
OtherSessionWrite(v) ==
  /\ nRemote < MaxRemoteWrites
  /\ remoteDoc' = v
  /\ snapQueue' = Notify(snapQueue, v)
  /\ nRemote' = nRemote + 1
  /\ UNCHANGED <<authPhase, db, userId, editor, saveTimeout, inflight, nEdits,
                 nWrites, burstLen, burstSpan, lastEdit, sinceEdit, appliedSince,
                 writesSince, targets, afterFailure, earlyCalls>>

\* the onSnapshot callback of listener s (lines 586-593); editor.setValue
\* raises the session's change event, so the change handlers run
OnSnapshot(s) ==
  /\ snapQueue[s] /= <<>>
  /\ snapQueue' = [snapQueue EXCEPT ![s] = Tail(snapQueue[s])]
  /\ IF SnapshotApplies(Head(snapQueue[s]), editor)
       THEN /\ editor' = Head(snapQueue[s])
            /\ saveTimeout' = [i \in DOMAIN saveTimeout |-> OnChange(saveTimeout[i])]
            /\ appliedSince' = TRUE
       ELSE UNCHANGED <<editor, saveTimeout, appliedSince>>
  /\ UNCHANGED <<authPhase, db, userId, remoteDoc, inflight, nEdits, nRemote,
                 nWrites, burstLen, burstSpan, lastEdit, sinceEdit, writesSince,
                 targets, afterFailure, earlyCalls>>

\* d ms pass while a timer is pending, never past the time it fires (with no
\* timer pending the passing of time changes nothing the program reads)
Advance(d) ==
  /\ PendingTimers /= {}
  /\ \A t \in PendingTimers : d <= t /\ DebounceMs - (t - d) <= MaxGap
  /\ Elapse(d)
  /\ UNCHANGED <<authPhase, db, userId, editor, snapQueue, remoteDoc, inflight,
                 nEdits, nRemote, nWrites, burstLen, burstSpan, lastEdit,
                 appliedSince, writesSince, targets, afterFailure, earlyCalls>>

\* time passes until the next timer is due
AdvanceToTimer ==
  /\ PendingTimers /= {}
  /\ \A t \in PendingTimers : t > 0
  /\ Elapse(CHOOSE t \in PendingTimers : \A u \in PendingTimers : t <= u)
  /\ UNCHANGED <<authPhase, db, userId, editor, snapQueue, remoteDoc, inflight,
                 nEdits, nRemote, nWrites, burstLen, burstSpan, lastEdit,
                 appliedSince, writesSince, targets, afterFailure, earlyCalls>>

NextSync ==
  \/ (\E config, signedIn \in BOOLEAN : initializeAppAndAuth(config, signedIn))
       /\ UNCHANGED <<aiVars, runVars>>
  \/ OnAuthStateChanged /\ UNCHANGED <<aiVars, runVars>>
  \/ (\E v \in Values : LocalEdit(v)) /\ UNCHANGED <<aiVars, runVars>>
  \/ (\E i \in DOMAIN saveTimeout : TimerFires(i)) /\ UNCHANGED <<aiVars, runVars>>
  \/ (\E ok \in BOOLEAN : WriteSettles(ok)) /\ UNCHANGED <<aiVars, runVars>>
  \/ (\E v \in RemoteValues : OtherSessionWrite(v)) /\ UNCHANGED <<aiVars, runVars>>
  \/ (\E s \in DOMAIN snapQueue : OnSnapshot(s)) /\ UNCHANGED <<aiVars, runVars>>
  \/ (\E d \in Steps : Advance(d)) /\ UNCHANGED <<aiVars, runVars>>
  \/ AdvanceToTimer /\ UNCHANGED <<aiVars, runVars>>

\* the Firestore page: the document may exist before the session starts
SyncInit == InitAI /\ InitSync /\ InitRun /\ remoteDoc \in InitialDocs

SpecSync == SyncInit /\ [][NextSync]_vars

(***************************************************************************)
(* setupEditorPersistence (lines 578-607): the guard, the subscription,    *)
(* the change handler with its own saveTimeout, the initial save.          *)
(***************************************************************************)
setupEditorPersistence ==
  IF ~CanPersist
    THEN UNCHANGED <<snapQueue, saveTimeout, inflight, nWrites, targets>>
    ELSE /\ snapQueue' = Append(snapQueue, <<remoteDoc>>)   \* onSnapshot(dataRef, ...)
         /\ saveTimeout' = Append(saveTimeout, NoTimer)     \* let saveTimeout; on('change')
         /\ saveEditorContent(editor)                       \* saveEditorContent()

\* saveEditorContent is called while db or userId is unset
saveEditorContentEarly ==
  /\ ~db \/ userId = NullUser
  /\ saveEditorContent(editor)
  /\ earlyCalls' = earlyCalls \cup {"saveEditorContent"}
  /\ UNCHANGED <<authPhase, db, userId, editor, saveTimeout, snapQueue, remoteDoc,
                 nEdits, nRemote, burstLen, burstSpan, lastEdit, sinceEdit,
                 appliedSince, writesSince, afterFailure>>

\* setupEditorPersistence is called while db or userId is unset
setupEditorPersistenceEarly ==
  /\ ~db \/ userId = NullUser
  /\ setupEditorPersistence
  /\ earlyCalls' = earlyCalls \cup {"setupEditorPersistence"}
  /\ UNCHANGED <<authPhase, db, userId, editor, remoteDoc, nEdits, nRemote,
                 burstLen, burstSpan, lastEdit, sinceEdit, appliedSince,
                 writesSince, afterFailure>>

NextEarly ==
  \/ NextSync
  \/ saveEditorContentEarly /\ UNCHANGED <<aiVars, runVars>>
  \/ setupEditorPersistenceEarly /\ UNCHANGED <<aiVars, runVars>>

\* the Firestore page with calls of the persistence functions at any time
\* before there is a user
SpecEarly == SyncInit /\ [][NextEarly]_vars

(***************************************************************************)
(* The onAuthStateChanged callback reports a user once more (lines         *)
(* 407-415): setupApplication and setupEditorPersistence run again.        *)
(* ace.edit("editor") gives the editor of the element; its setValue raises *)
(* the change event for the handlers registered so far.                    *)
(***************************************************************************)
OnAuthStateChangedAgain ==
  /\ authPhase = "ready"
  /\ Len(saveTimeout) < MaxAuthCallbacks
  /\ nWrites < MaxWrites
  /\ userId' = Uid
  /\ editor' = DefaultCode                    \* initializeAceEditor
  /\ snapQueue' = Append(snapQueue, <<remoteDoc>>)   \* onSnapshot(dataRef, ...)
  /\ saveTimeout' = Append([i \in DOMAIN saveTimeout |-> OnChange(saveTimeout[i])],
                           NoTimer)                  \* let saveTimeout; on('change')
  /\ inflight' = Append(inflight, DefaultCode)       \* saveEditorContent()
  /\ nWrites' = nWrites + 1
  /\ targets' = targets \cup {DOCUMENT_PATH}
  /\ appliedSince' = TRUE
  /\ UNCHANGED <<authPhase, db, remoteDoc, nEdits, nRemote, burstLen, burstSpan,
                 lastEdit, sinceEdit, writesSince, afterFailure, earlyCalls>>

NextReauth ==
  \/ NextSync
  \/ OnAuthStateChangedAgain /\ UNCHANGED <<aiVars, runVars>>

\* the Firestore page where the auth state is reported more than once
SpecReauth == SyncInit /\ [][NextReauth]_vars

\* the AI-debugger page
RetryInit == InitAI /\ InitSync /\ InitRun /\ remoteDoc = NoDoc

SpecRetry == RetryInit /\ [][NextAI]_vars

\* what a call of getSuggestion is suspended on: the fetch, the reading of the
\* body, the backoff timer
Settles ==
  /\ \/ \E o \in FetchOutcomes, lat \in 0..MaxLatency : FetchSettles(o, lat)
     \/ JsonSettles
     \/ BackoffElapses
  /\ UNCHANGED <<syncVars, runVars>>

\* the AI-debugger page where every promise the call awaits settles and
\* every timer fires
SpecRetryFair == SpecRetry /\ WF_vars(Settles)

\* one of the run-button pages, loaded
RunInit ==
  /\ InitAI
  /\ InitSync
  /\ remoteDoc = NoDoc
  /\ variant \in Variants
  /\ buttonDisabled = FALSE
  /\ pending = {}
  /\ nClicks = 0
  /\ outputArea = Shown(InitialText(variant), FALSE)
  /\ shown = NotShown

SpecRun == RunInit /\ [][NextRun]_vars

\* a run-button page where every request settles
SpecRunFair ==
  SpecRun /\ WF_vars((\E r \in pending, o \in RunOutcomes : RunSettles(r, o))
                       /\ UNCHANGED <<aiVars, syncVars>>)

(***************************************************************************)
(* Claims about the retry loop of getSuggestion, checked under SpecRetry.  *)
(***************************************************************************)
\* an attempt that failed by transport or by a non-success status
Failed(o) == o.settle = "reject" \/ ~o.ok
\* an attempt whose response carries a success status
OkStatus(o) == o.settle = "resolve" /\ o.ok
AllFailed == \A i \in DOMAIN outcomes : Failed(outcomes[i])
\* the body of attempt k has been read (the await response.json() is over)
BodyRead(k) == ~(pc = "json" /\ k = Len(outcomes))
RECURSIVE Sum(_)
Sum(s) == IF s = <<>> THEN 0 ELSE Head(s) + Sum(Tail(s))

\* C1: when every attempt fails (fetch rejects or the status is not success),
\* the call makes exactly maxRetries attempts, ends with the max-retries
\* failure, has waited baseDelayMs*2^1 .. baseDelayMs*2^(maxRetries-1) in that
\* order, and never waits after the last failed attempt.
C1_AllFailExhausts ==
  /\ pc = "wait" => attempts < maxRetries
  /\ Len(startTimes) <= maxRetries
  /\ (pc = "done" /\ AllFailed) =>
       /\ Len(startTimes) = maxRetries
       /\ Len(outcomes) = maxRetries
       /\ result = MaxRetriesResult
       /\ delays = [i \in 1..(maxRetries - 1) |-> baseDelayMs * (2 ^ i)]

\* C1 witness: a finished call whose three attempts failed, by transport and by status
C1_Witness ==
  /\ pc = "done"
  /\ Len(outcomes) = maxRetries
  /\ AllFailed
  /\ \E i \in DOMAIN outcomes : outcomes[i].settle = "reject"
  /\ \E i \in DOMAIN outcomes : outcomes[i].settle = "resolve"
  /\ delays = <<2000, 4000>>

\* C2: if attempts 1..k-1 fail and attempt k returns a success status, exactly
\* k attempts are made: no fetch is issued after attempt k.
C2_StopsAtFirstSuccessStatus ==
  \A k \in DOMAIN outcomes :
    (OkStatus(outcomes[k]) /\ \A j \in 1..(k - 1) : Failed(outcomes[j]))
      => Len(startTimes) = k

\* C3: on the first attempt with a success status the loop ends with Success
\* and issues no further attempt, even when parsing that response's body fails.
C3_SuccessStatusEndsLoopEvenIfParseFails ==
  \A k \in DOMAIN outcomes :
    (OkStatus(outcomes[k]) /\ outcomes[k].body = Unparseable /\ BodyRead(k))
      => /\ pc = "done"
         /\ Len(startTimes) = k
         /\ result /= MaxRetriesResult

\* C4: a success-status response whose body carries an error field is never
\* retried: the call ends at that attempt, its result is that payload and the
\* suggestion box shows the payload's message.
C4_ErrorPayloadSurfaced ==
  \A k \in DOMAIN outcomes :
    (OkStatus(outcomes[k]) /\ outcomes[k].body.kind = "error" /\ BodyRead(k))
      => /\ pc = "done"
         /\ Len(startTimes) = k
         /\ attempts = k - 1
         /\ result = outcomes[k].body
         /\ suggestionBox = BoxApiError(outcomes[k].body.text)

\* C4 witness: the second attempt answered 200 with an error payload, after a failure
C4_Witness ==
  /\ pc = "done"
  /\ Len(outcomes) = 2
  /\ Failed(outcomes[1])
  /\ OkStatus(outcomes[2])
  /\ outcomes[2].body = ErrorPayload("quota")
  /\ suggestionBox = BoxApiError("quota")

\* C5 as claimed: after maxRetries failed attempts the result carries the
\* detail of the last failed attempt.
C5_CarriesLastFailureDetail ==
  (pc = "done" /\ attempts = maxRetries)
    => result.text = outcomes[Len(outcomes)].body.text

\* C5 amended: after maxRetries failed attempts the result is the max-retries
\* failure with the fixed message, whatever the failures were, and that is what
\* the suggestion box shows.
C5_ExhaustedResultIsFixed ==
  (pc = "done" /\ attempts = maxRetries)
    => /\ result = ErrorPayload(MaxRetriesMessage)
       /\ suggestionBox = BoxApiError(MaxRetriesMessage)

\* C5 witness: the last failed attempt had a detail of its own
C5_Witness ==
  /\ pc = "done"
  /\ attempts = maxRetries
  /\ outcomes[maxRetries] = [settle |-> "resolve", ok |-> FALSE, body |-> ErrorPayload("overloaded")]
  /\ result = MaxRetriesResult

\* C6 as claimed: all attempts failing with no call latency, the attempts
\* start at 0, 2000 and 4000 ms and the failure is produced at 4000 ms.
C6_AttemptsAt0_2000_4000 ==
  (pc = "done" /\ AllFailed /\ Sum(latencies) = 0)
    => /\ startTimes = <<0, 2000, 4000>>
       /\ elapsed = 4000

\* C6 amended: all attempts failing, the attempts start at 0, 2000 and 6000 ms
\* plus the latency of the calls before, and the failure is produced at
\* 6000 ms plus the latency of the three calls.
C6_AttemptsAt0_2000_6000 ==
  (pc = "done" /\ AllFailed)
    => /\ startTimes = <<0, 2000 + latencies[1], 6000 + latencies[1] + latencies[2]>>
       /\ elapsed = 6000 + Sum(latencies)

\* C6 witness: three failed attempts without latency, over at 6000 ms
C6_Witness ==
  /\ pc = "done"
  /\ AllFailed
  /\ latencies = <<0, 0, 0>>
  /\ startTimes = <<0, 2000, 6000>>
  /\ elapsed = 6000

\* C7: a call that ends without a usable suggestion leaves the suggestion box
\* showing an error message, never the loading indicator.
C7_NoSuggestionShowsError ==
  (pc = "done" /\ ~(result.kind = "candidates" /\ result.text /= ""))
    => /\ suggestionBox.kind = "error-api"
       /\ suggestionBox /= BoxLoading

\* C22: every getSuggestion call that passed its entry guard returns: it
\* issues at most maxRetries fetches whatever their outcomes are, and once
\* they have all settled the call is over with isRunning false and the
\* suggestion button enabled.
C22_GetSuggestionTerminates ==
  /\ [](Len(startTimes) <= maxRetries /\ attempts <= maxRetries)
  /\ [](pc = "done" => ~isRunning /\ ~suggestionDisabled)
  /\ (pc \in {"fetch", "json", "wait"}) ~> (pc = "done")

\* C22 witness: a call over after a rejected fetch, a non-success status and
\* a success status with an unparseable body
C22_Witness ==
  /\ pc = "done"
  /\ ~isRunning
  /\ ~suggestionDisabled
  /\ Len(outcomes) = maxRetries
  /\ outcomes[1].settle = "reject"
  /\ outcomes[2].settle = "resolve" /\ ~outcomes[2].ok
  /\ outcomes[3] = [settle |-> "resolve", ok |-> TRUE, body |-> Unparseable]

\* C23: runCode and getSuggestion exclude each other through isRunning:
\* isRunning is true exactly while a getSuggestion call is in progress
\* (runCode has no await), and while it is true no step changes
\* lastErrorMessage, the output or the run button, no request is sent but the
\* next attempt of the call in progress, and the suggestion box and button
\* change only when that call returns; a call refused at its guard changes
\* nothing at all.
C23_MutualExclusion ==
  /\ [](isRunning <=> pc \in {"fetch", "json", "wait"})
  /\ [][isRunning =>
          /\ lastErrorMessage' = lastErrorMessage
          /\ codeOutput' = codeOutput
          /\ runDisabled' = runDisabled
          /\ Len(startTimes') > Len(startTimes) => pc = "wait"
          /\ pc' /= "done" =>
               /\ isRunning'
               /\ suggestionBox' = suggestionBox
               /\ suggestionDisabled' = suggestionDisabled]_vars
  /\ [][(refused' /= refused /\ refused' /= {}) =>
          <<isRunning, lastErrorMessage, codeOutput, suggestionBox,
            suggestionDisabled, runDisabled, pc, attempts, response, result,
            startTimes, outcomes>>' =
          <<isRunning, lastErrorMessage, codeOutput, suggestionBox,
            suggestionDisabled, runDisabled, pc, attempts, response, result,
            startTimes, outcomes>>]_vars

\* C23 witness: during the backoff wait of a getSuggestion call both runCode
\* and getSuggestion were called and returned at their guards
C23_Witness ==
  /\ isRunning
  /\ pc = "wait"
  /\ refused = {"runCode", "getSuggestion"}
  /\ lastErrorMessage = TracebackText
  /\ codeOutput = TracebackText
  /\ suggestionBox = BoxLoading
  /\ Len(startTimes) = 1

\* how the most recent runCode ended, read off the output it wrote:
\* codeOutput.textContent = result.output, the traceback with status error
LastRunStatus ==
  CASE codeOutput = "waiting-run" -> "none"
    [] codeOutput = TracebackText -> "error"
    [] OTHER -> "success"

\* C24: a getSuggestion call is in progress only with lastErrorMessage set;
\* lastErrorMessage is set exactly when the most recent runCode ended with
\* status error, and then it is that run's output; after a run that succeeded
\* it is empty and the suggestion button is disabled.
C24_LastErrorMessageTracksLastRun ==
  /\ pc \in {"fetch", "json", "wait"} => lastErrorMessage /= ""
  /\ lastErrorMessage /= "" <=> LastRunStatus = "error"
  /\ LastRunStatus = "error" => lastErrorMessage = codeOutput
  /\ LastRunStatus = "success" => lastErrorMessage = "" /\ suggestionDisabled

\* C24 witness: a run ended with status error, a getSuggestion call was made
\* for it and is over: lastErrorMessage is still that run's output
C24_Witness ==
  /\ pc = "done"
  /\ Len(outcomes) = 2
  /\ LastRunStatus = "error"
  /\ lastErrorMessage = TracebackText
  /\ ~suggestionDisabled
  /\ result.kind = "candidates"

(***************************************************************************)
(* Claims about the autosave and the snapshot listener, checked under      *)
(* SpecSync.                                                               *)
(***************************************************************************)
\* C8: local edits each less than the debounce interval after the one before
\* (and no snapshot applied since) cause exactly one debounced write: none
\* before the interval is over, with the timer due DebounceMs after the last
\* edit, and then one write, issued DebounceMs after the last edit with the
\* value of the last edit.
C8_OneDebouncedWrite ==
  (burstLen > 0 /\ ~appliedSince) =>
    /\ Len(writesSince) <= 1
    /\ Len(writesSince) = 1 =>
         writesSince[1] = [after |-> DebounceMs, value |-> lastEdit]
    /\ Len(writesSince) = 0 =>
         /\ sinceEdit <= DebounceMs
         /\ \A i \in DOMAIN saveTimeout : saveTimeout[i] = DebounceMs - sinceEdit

\* C8 witness: three edits 500 ms apart, the last one "abc", then the one
\* write of "abc" 2000 ms after it
C8_Witness ==
  /\ burstLen = 3
  /\ burstSpan = 1000
  /\ lastEdit = "abc"
  /\ ~appliedSince
  /\ sinceEdit = 2000
  /\ writesSince = <<[after |-> 2000, value |-> "abc"]>>
  /\ inflight /= <<>>
  /\ inflight[Len(inflight)] = "abc"

\* C9: delivering a remote change never changes the pending debounce timer.
C9_RemoteChangeKeepsTimer ==
  [][(\E s \in DOMAIN snapQueue : OnSnapshot(s)) => saveTimeout' = saveTimeout]_vars

\* C10: a remote change whose value, any string, the empty one included,
\* differs from the editor content makes that value the editor content.
C10_RemoteValueBecomesLocal ==
  [][\A s \in DOMAIN snapQueue :
       (/\ OnSnapshot(s)
        /\ Head(snapQueue[s]) /= NoDoc
        /\ Head(snapQueue[s]) /= editor)
         => editor' = Head(snapQueue[s])]_vars

\* C11: delivering a remote change whose value equals the editor content
\* changes nothing but the listener's queue: the editor is not rewritten, no
\* change event is raised (no timer is started, restarted or cancelled) and no
\* write is issued.
C11_EqualRemoteValueIsNoOp ==
  [][\A s \in DOMAIN snapQueue :
       (OnSnapshot(s) /\ Head(snapQueue[s]) = editor)
         => /\ editor' = editor
            /\ saveTimeout' = saveTimeout
            /\ appliedSince' = appliedSince
            /\ inflight' = inflight
            /\ nWrites' = nWrites
            /\ remoteDoc' = remoteDoc]_vars

\* C11 witness: the one edit made the editor hold "ab", no snapshot was
\* applied since, the store holds "ab" and every snapshot has been delivered
\* (so the one of "ab" was delivered to an editor holding "ab"): no timer is
\* pending and no write was issued but the debounced one of the edit
C11_Witness ==
  /\ authPhase = "ready"
  /\ nEdits = 1
  /\ lastEdit = "ab"
  /\ editor = "ab"
  /\ ~appliedSince
  /\ nRemote = 0
  /\ remoteDoc = "ab"
  /\ writesSince = <<[after |-> DebounceMs, value |-> "ab"]>>
  /\ snapQueue = << <<>> >>
  /\ saveTimeout = <<NoTimer>>
  /\ inflight = <<>>

\* C12: the echo of a write of this session never overwrites a newer local
\* edit. With no other session having written, a notified value other than
\* what the document held at the start is the echo of a write of this session;
\* delivered while the editor holds the last local edit, it leaves the editor
\* as it is.
C12_EchoKeepsNewerEdit ==
  [][\A s \in DOMAIN snapQueue :
       (/\ OnSnapshot(s)
        /\ nRemote = 0
        /\ Head(snapQueue[s]) \notin InitialDocs
        /\ editor = lastEdit
        /\ ~appliedSince)
         => editor' = editor]_vars

\* C13: at most one setDoc call of the session is outstanding at any time: no
\* persist, the initial one or a debounced one, starts while an earlier write
\* of the document has not completed.
C13_OnePersistOutstanding == Len(inflight) <= 1

\* C14: when the session connects and the document already exists, no write
\* of the editor's initial content is issued (the initial save happens only
\* when there is no document yet).
C14_InitialSaveOnlyWithoutDocument ==
  [][(OnAuthStateChanged /\ remoteDoc /= NoDoc) => inflight' = inflight]_vars

\* C15: when the debounce timer fires and the editor content equals the value
\* last persisted, no write is issued. With no other session having written,
\* a stored value other than what the document held at the start is the value
\* of the session's last successful write.
C15_NoWriteOfPersistedValue ==
  [][\A i \in DOMAIN saveTimeout :
       (/\ TimerFires(i)
        /\ nRemote = 0
        /\ remoteDoc \notin InitialDocs
        /\ editor = remoteDoc
        /\ editor = lastEdit
        /\ ~appliedSince)
         => inflight' = inflight]_vars

\* C16: every document the session subscribes or writes to lies under the
\* path of the session's own user id, so that sessions of different users
\* never share a document.
C16_PathKeyedByUser ==
  \A p \in targets : p = PathOf(appId, userId)

\* C17: a setDoc call that fails is only logged: the failure starts no timer,
\* issues no write and changes nothing else of the session; the next local
\* edit starts a debounce timer of DebounceMs, and when that timer fires a new
\* setDoc call with the editor content is issued.
C17_FailedPersistNotRetried ==
  [][/\ WriteSettles(FALSE) =>
          /\ inflight' = Tail(inflight)
          /\ saveTimeout' = saveTimeout
          /\ nWrites' = nWrites
          /\ <<authPhase, db, userId, editor, remoteDoc, snapQueue>>' =
               <<authPhase, db, userId, editor, remoteDoc, snapQueue>>
     /\ \A v \in Values :
          (LocalEdit(v) /\ afterFailure = "failed") =>
             \A i \in DOMAIN saveTimeout : saveTimeout'[i] = DebounceMs
     /\ \A i \in DOMAIN saveTimeout :
          (TimerFires(i) /\ afterFailure = "edited") =>
             /\ inflight' = Append(inflight, editor)
             /\ nWrites' = nWrites + 1]_vars

\* C17 witness: the initial save failed (nothing is stored), the user then
\* typed "ab", and the timer of that edit fired: the write of "ab" is the one
\* outstanding
C17_Witness ==
  /\ afterFailure = "retried"
  /\ remoteDoc = NoDoc
  /\ nWrites = 2
  /\ lastEdit = "ab"
  /\ inflight = <<"ab">>
  /\ saveTimeout = <<NoTimer>>

\* the three states of the autosave, read off handler i's timer and the
\* setDoc calls that have not settled
Idle(i) == saveTimeout[i] = NoTimer /\ inflight = <<>>
TimerPending(i) == saveTimeout[i] /= NoTimer
Persisting == inflight /= <<>>

\* C20: the autosave is at every moment in exactly one of the states Idle,
\* TimerPending and Persisting, also when a local edit arrives while a
\* persist is in flight.
C20_ExactlyOneAutosaveState ==
  \A i \in DOMAIN saveTimeout :
    Cardinality({st \in {"Idle", "TimerPending", "Persisting"} :
                   \/ st = "Idle" /\ Idle(i)
                   \/ st = "TimerPending" /\ TimerPending(i)
                   \/ st = "Persisting" /\ Persisting}) = 1

\* C21: a local edit replaces every pending debounce timer by a new one of
\* DebounceMs (the timer it replaces never fires: with no snapshot applied
\* since, a timer fires only DebounceMs after the last edit) and leaves the
\* setDoc calls in flight as they are; a write that completes stores the value
\* it read when it was issued.
C21_EditCancelsTimerNotPersist ==
  [][/\ \A v \in Values :
          LocalEdit(v) =>
            /\ \A i \in DOMAIN saveTimeout : saveTimeout'[i] = DebounceMs
            /\ inflight' = inflight
            /\ remoteDoc' = remoteDoc
     /\ \A i \in DOMAIN saveTimeout :
          (TimerFires(i) /\ burstLen > 0 /\ ~appliedSince) => sinceEdit = DebounceMs
     /\ (WriteSettles(TRUE) /\ inflight /= <<>>) => remoteDoc' = Head(inflight)]_vars

\* C21 witness: the write of "ab" was issued, then the user typed twice,
\* 500 ms apart, the second time with the timer of the first pending: the
\* timer is new and the write in flight still carries "ab"
C21_Witness ==
  /\ inflight = <<"ab">>
  /\ nWrites = 2
  /\ burstLen = 2
  /\ burstSpan = 500
  /\ lastEdit = "abc"
  /\ editor = "abc"
  /\ ~appliedSince
  /\ sinceEdit = 0
  /\ saveTimeout = <<DebounceMs>>

\* C26: one page session holds at most one remote subscription, one editor
\* change handler and one pending debounce timer, however many times the
\* auth-state callback reports a signed-in user, so that a local edit starts
\* no more than one debounced write.
C26_SingleRegistration ==
  /\ Len(snapQueue) <= 1
  /\ Len(saveTimeout) <= 1
  /\ Cardinality({i \in DOMAIN saveTimeout : saveTimeout[i] /= NoTimer}) <= 1

\* C27: while db or userId is unset no write was issued, none is in flight,
\* there is no subscription and no change handler or timer, and the editor is
\* what it was, whichever of saveEditorContent and setupEditorPersistence
\* was called.
C27_NothingBeforeUser ==
  (~db \/ userId = NullUser) =>
    /\ inflight = <<>>
    /\ nWrites = 0
    /\ targets = {}
    /\ snapQueue = <<>>
    /\ saveTimeout = <<>>
    /\ editor = NoEditor

C27_Witness ==
  /\ earlyCalls = {"saveEditorContent", "setupEditorPersistence"}
  /\ authPhase = "listening"
  /\ db
  /\ userId = NullUser
  /\ inflight = <<>>
  /\ snapQueue = <<>>
  /\ saveTimeout = <<>>
  /\ nWrites = 0
  /\ editor = NoEditor

(***************************************************************************)
(* Claims about the run-button pages, checked under SpecRun.               *)
(***************************************************************************)
\* C18: in every variant at most one code-execution request is in flight at
\* any time, the run button being disabled while a request is in flight.
C18_OneRequestInFlight ==
  /\ Cardinality(pending) <= 1
  /\ pending /= {} => buttonDisabled

\* the message of an error field: the string itself, or the object's message
MessageOf(e) == IF e.shape = "string" THEN e.text ELSE e.message

\* C19: a response whose error field is set, as a string or as an object
\* { type, message, suggestion }, is shown as an error and the text shown
\* contains the error's message.
C19_BothErrorShapesShown ==
  (/\ shown /= NotShown
   /\ shown.outcome.settle = "resolve"
   /\ shown.outcome.ok
   /\ shown.outcome.body.parses
   /\ Truthy(shown.outcome.body.error))
    => /\ outputArea.error
       /\ \E i \in DOMAIN outputArea.text :
            outputArea.text[i] = MessageOf(shown.outcome.body.error)

\* C25: in the variants that disable the run button when a request starts,
\* the button is disabled only while the request is in flight and is enabled
\* again once the request has settled, whatever the outcome was: output,
\* application error, non-success status, network failure, unparseable body.
C25_RunButtonReenabled ==
  /\ [](DisablesButton(variant) => (buttonDisabled <=> pending /= {}))
  /\ [][\A r \in pending, o \in RunOutcomes :
          (RunSettles(r, o) /\ DisablesButton(variant)) => ~buttonDisabled']_vars
  /\ buttonDisabled ~> ~buttonDisabled

\* C25 witness: on the page of part_001 the request was answered with a
\* success status and an unparseable body; the button is enabled again
C25_Witness ==
  /\ variant = "part_001"
  /\ nClicks = 1
  /\ pending = {}
  /\ shown = [req |-> 1,
              outcome |-> [settle |-> "resolve", ok |-> TRUE, body |-> RunUnparseable]]
  /\ outputArea = NetworkError
  /\ ~buttonDisabled

====
